---- MODULE Spec2Model ----
(***************************************************************************)
(* A model of the two repositories of Danet-Database:                      *)
(*   - KvRepository (src/kv/repository.ts): CRUD over Deno KV with a       *)
(*     primary key and the secondary keys of the getSecondaryKeys hook,    *)
(*     written in one atomic transaction per create/updateOne/deleteOne;   *)
(*   - MongodbRepository (src/mongodb/repository.ts): CRUD over a          *)
(*     collection, the ObjectId of a document turned into a string on the  *)
(*     way out and parsed from a string on the way in.                     *)
(* Every await of the code is a step boundary: an operation that awaits a  *)
(* read and then a commit is two actions, with the caller's locals kept in *)
(* between.                                                                *)
(***************************************************************************)
EXTENDS Integers, Sequences, FiniteSets, TLC

VARIABLES store, version, indexMode, pc, call, local, ret, lastCommit,
          inflight, everKeys, lastWrite, onlyCud, last,
          docs, oidCounter, created, queried, mcall, mret, mprev,
          mprevDeleteAll

kvVars == <<store, version, indexMode, pc, call, local, ret, lastCommit,
            inflight, everKeys, lastWrite, onlyCud, last>>
docVars == <<docs, oidCounter, created, queried, mcall, mret, mprev,
             mprevDeleteAll>>
vars == <<kvVars, docVars>>

-----------------------------------------------------------------------------
(* Bounds of the model.                                                    *)

\* value-writing commits the store accepts before the model stops writers
MaxVersion == 2
\* documents the Document Repository model creates
MaxDocs == 2
\* bytes of an ObjectId in the model (BSON's has 12)
IdBytes == 1

-----------------------------------------------------------------------------
(* Values shared by both repositories.                                     *)

\* JavaScript's undefined and null, kept apart: getById of the KV repository
\* returns one or the other depending on the path taken.
Undefined == [undefined |-> TRUE]
Null == [null |-> TRUE]
IsAbsent(v) == v \in {Undefined, Null}

\* what a call hands back: a value, nothing (Promise<void>), or a thrown Error
Returned(v) == [kind |-> "value", val |-> v]
Void == [kind |-> "void", val |-> Undefined]
Thrown(msg) == [kind |-> "error", val |-> [message |-> msg]]
NoResult == [kind |-> "none", val |-> Undefined]

\* the object spread {...a, ...b}: b's fields win
Spread(a, b) ==
  [f \in (DOMAIN a) \cup (DOMAIN b) |-> IF f \in DOMAIN b THEN b[f] ELSE a[f]]

Range(f) == {f[x] : x \in DOMAIN f}

-----------------------------------------------------------------------------
(* The Indexed-KV Repository: src/kv/repository.ts over Deno KV.           *)

\* the two concurrent callers of the repository (Spec uses the first alone)
Procs == {1, 2}

collectionName == "users"

IdSeq == <<"u1", "u2">>
EmailSeq == <<"a", "b">>
Ids == Range(IdSeq)
Emails == Range(EmailSeq)

\* T extends { _id: string }: an entity with one indexed field
Entities == [_id : Ids, email : Emails]

\* The getSecondaryKeys hook as the concrete repositories define it: the
\* default of the base class (no index), an index on email under the
\* collection prefix, and an index on email under a prefix of its own.
IndexModes == {"none", "prefixed", "external"}

PrimaryKey(id) == <<collectionName, id>>

GetSecondaryKeys(item) ==
  CASE indexMode = "none" -> [n \in {} |-> <<>>]
    [] indexMode = "prefixed" ->
         [n \in {"email"} |-> <<collectionName, "email", item.email>>]
    [] indexMode = "external" ->
         [n \in {"email"} |-> <<"users_by_email", item.email>>]

\* Deno KV orders keys segment by segment, strings bytewise: under "users"
\* the segment "email" sorts before "u1" and "u2"; "users_by_email" is a
\* first segment of its own, after "users".
KeyOrder ==
  [i \in 1..Len(EmailSeq) |-> <<collectionName, "email", EmailSeq[i]>>]
  \o [i \in 1..Len(IdSeq) |-> <<collectionName, IdSeq[i]>>]
  \o [i \in 1..Len(EmailSeq) |-> <<"users_by_email", EmailSeq[i]>>]

\* a versionstamp of null: the entry kv.get returns for a missing key
NoVersion == 0

\* kv.get(key): a KvEntryMaybe, never a falsy value
KvGet(st, key) ==
  IF key \in DOMAIN st
    THEN [key |-> key, value |-> st[key].value,
          versionstamp |-> st[key].versionstamp]
    ELSE [key |-> key, value |-> Null, versionstamp |-> NoVersion]

\* a list that yields the primary keys [prefix, id] alone
KvListPrimaryOnly(st, prefix) ==
  LET InPrefix(k) == k \in DOMAIN st /\ k[1] = prefix /\ Len(k) = 2
  IN  SelectSeq(KeyOrder, InPrefix)

\* kv.list({prefix}): the keys whose first segment is the prefix, in key order
KvList(st, prefix) ==
  LET InPrefix(k) == k \in DOMAIN st /\ k[1] = prefix
  IN  SelectSeq(KeyOrder, InPrefix)

\* the mutations of an atomic operation
SetOp(key, value) == [kind |-> "set", key |-> key, value |-> value]
DeleteOp(key) == [kind |-> "delete", key |-> key, value |-> Null]

\* a commit whose sets take effect on the keys that are not yet there only
KvApplyInsertOnly(st, tx, vs) ==
  LET sets == {m.key : m \in {x \in tx : x.kind = "set"}} \ DOMAIN st
      dels == {m.key : m \in {x \in tx : x.kind = "delete"}}
      ValueOf(k) == (CHOOSE m \in tx : m.kind = "set" /\ m.key = k).value
  IN  [k \in ((DOMAIN st) \ dels) \cup sets |->
         IF k \in sets THEN [value |-> ValueOf(k), versionstamp |-> vs]
                       ELSE st[k]]

\* atomic().commit() when it applies: every mutation or none, the values
\* written all carrying the commit's versionstamp.  The transactions of the
\* repository never set and delete one key, and set a key twice only to the
\* same value, so the order of the mutations does not show.
KvApply(st, tx, vs) ==
  LET sets == {m.key : m \in {x \in tx : x.kind = "set"}}
      dels == {m.key : m \in {x \in tx : x.kind = "delete"}}
      ValueOf(k) == (CHOOSE m \in tx : m.kind = "set" /\ m.key = k).value
  IN  [k \in ((DOMAIN st) \ dels) \cup sets |->
         IF k \in sets THEN [value |-> ValueOf(k), versionstamp |-> vs]
                       ELSE st[k]]

\* commit(): ok is the store's verdict; a commit that does not apply changes
\* nothing
KvCommit(st, tx, vs, ok) == IF ok THEN KvApply(st, tx, vs) ELSE st

\* a getAll that returns one element an entity: the primary entries
GetAllResultPrimaryOnly(st) ==
  LET keys == KvListPrimaryOnly(st, collectionName)
  IN  [i \in 1..Len(keys) |-> st[keys[i]].value]

\* KvRepository.getAll
GetAllResult(st) ==
  LET keys == KvList(st, collectionName)
  IN  [i \in 1..Len(keys) |-> st[keys[i]].value]

\* KvRepository.getById
GetByIdResult(st, id) ==
  IF id = "" THEN Undefined ELSE KvGet(st, PrimaryKey(id)).value

\* a create that forgets the secondary keys
CreateTxPrimaryOnly(item) == {SetOp(PrimaryKey(item._id), item)}

\* KvRepository.create: the transaction it builds
CreateTx(item) ==
  {SetOp(PrimaryKey(item._id), item)}
  \cup {SetOp(k, item) : k \in Range(GetSecondaryKeys(item))}

\* a create that does not look at the commit result
CreateOutcomeUnchecked(ok, item) == Returned(item)

\* KvRepository.create: what it hands back for a commit result
CreateOutcome(ok, item) ==
  IF ~ok THEN Thrown("Could create entity") ELSE Returned(item)

\* KvRepository.deleteOne: the transaction it builds from the item it read
DeleteOneTx(item) ==
  {DeleteOp(PrimaryKey(item._id))}
  \cup {DeleteOp(k) : k \in Range(GetSecondaryKeys(item))}

\* a deleteOne that throws when its commit does not apply
DeleteOneOutcomeChecked(ok) ==
  IF ~ok THEN Thrown("Could delete entity") ELSE Void

\* KvRepository.deleteOne: await transaction.commit(), the result dropped
DeleteOneOutcome(ok) == Void

\* an updateOne that stores the item it is given, without the entry read
ItemToInsertItemOnly(itemInDb, item) == item

\* KvRepository.updateOne: itemToInsert = {...itemInDb, ...item}, where
\* itemInDb is the entry kv.get returned (key, value, versionstamp)
ItemToInsert(itemInDb, item) == Spread(itemInDb, item)

\* an updateOne that writes nothing when kv.get found no entry
UpdateOneTxExistingOnly(itemInDb, item) ==
  IF itemInDb.value = Null THEN {}
  ELSE {SetOp(PrimaryKey(item._id), ItemToInsert(itemInDb, item))}
       \cup {SetOp(k, ItemToInsert(itemInDb, item)) :
               k \in Range(GetSecondaryKeys(item))}

\* an updateOne that sets the primary key it read, [collection, itemId]
UpdateOneTxUnderItemId(itemInDb, item) ==
  {SetOp(itemInDb.key, ItemToInsert(itemInDb, item))}
  \cup {SetOp(k, ItemToInsert(itemInDb, item)) :
          k \in Range(GetSecondaryKeys(item))}

\* KvRepository.updateOne: the transaction it builds
UpdateOneTx(itemInDb, item) ==
  {SetOp(PrimaryKey(item._id), ItemToInsert(itemInDb, item))}
  \cup {SetOp(k, ItemToInsert(itemInDb, item)) :
          k \in Range(GetSecondaryKeys(item))}

\* KvRepository.updateOne: what it hands back for a commit result
UpdateOneOutcome(ok, itemInDb, item) ==
  IF ~ok THEN Thrown("Could update entity")
         ELSE Returned(ItemToInsert(itemInDb, item))

NoCall == [name |-> "none", itemId |-> "", item |-> Undefined]
Call(name, itemId, item) == [name |-> name, itemId |-> itemId, item |-> item]
Mark(p, act) == [proc |-> p, act |-> act]

\* History kept for the claims, read by no operation:
\*   lastCommit[p]  the store's verdict on the last commit of caller p
\*   everKeys[id]   the secondary keys a create or updateOne has written for id
\*   lastWrite[id]  the versionstamp of the last commit that set [collection, id]
\*   onlyCud        every call so far was a committed create of an id not yet
\*                  stored, a committed updateOne(id, item) of a stored entity
\*                  with id = item._id, or a committed deleteOne
\*   last           the caller and the step that led to this state

\* writers that have read and not yet committed
PendingWriters == {q \in Procs : pc[q] = "updateOne_commit"}
MayWrite == version + Cardinality(PendingWriters) < MaxVersion

KvInit ==
  /\ store = [k \in {} |-> Null]
  /\ version = 0
  /\ indexMode \in IndexModes
  /\ pc = [p \in Procs |-> "idle"]
  /\ call = [p \in Procs |-> NoCall]
  /\ local = [p \in Procs |-> Undefined]
  /\ ret = [p \in Procs |-> NoResult]
  /\ lastCommit = [p \in Procs |-> "none"]
  /\ inflight = {}
  /\ everKeys = [id \in Ids |-> {}]
  /\ lastWrite = [id \in Ids |-> NoVersion]
  /\ onlyCud = TRUE
  /\ last = Mark(0, "init")

Verdict(ok) == IF ok THEN "ok" ELSE "failed"

GetAll(p) ==
  /\ pc[p] = "idle"
  /\ call' = [call EXCEPT ![p] = Call("getAll", "", Undefined)]
  /\ ret' = [ret EXCEPT ![p] = Returned(GetAllResult(store))]
  /\ pc' = [pc EXCEPT ![p] = "done"]
  /\ last' = Mark(p, "getAll")
  /\ UNCHANGED <<store, version, indexMode, local, lastCommit, inflight,
                 everKeys, lastWrite, onlyCud>>
  /\ UNCHANGED docVars

GetById(p, id) ==
  /\ pc[p] = "idle"
  /\ call' = [call EXCEPT ![p] = Call("getById", id, Undefined)]
  /\ ret' = [ret EXCEPT ![p] = Returned(GetByIdResult(store, id))]
  /\ pc' = [pc EXCEPT ![p] = "done"]
  /\ last' = Mark(p, "getById")
  /\ UNCHANGED <<store, version, indexMode, local, lastCommit, inflight,
                 everKeys, lastWrite, onlyCud>>
  /\ UNCHANGED docVars

Create(p, item, ok) ==
  /\ pc[p] = "idle"
  /\ MayWrite
  /\ store' = KvCommit(store, CreateTx(item), version + 1, ok)
  /\ version' = IF ok THEN version + 1 ELSE version
  /\ call' = [call EXCEPT ![p] = Call("create", item._id, item)]
  /\ ret' = [ret EXCEPT ![p] = CreateOutcome(ok, item)]
  /\ pc' = [pc EXCEPT ![p] = "done"]
  /\ lastCommit' = [lastCommit EXCEPT ![p] = Verdict(ok)]
  /\ everKeys' = IF ok
       THEN [everKeys EXCEPT ![item._id] = @ \cup Range(GetSecondaryKeys(item))]
       ELSE everKeys
  /\ lastWrite' = IF ok THEN [lastWrite EXCEPT ![item._id] = version + 1]
                        ELSE lastWrite
  /\ onlyCud' = (onlyCud /\ ok /\ PrimaryKey(item._id) \notin DOMAIN store)
  /\ last' = Mark(p, "create")
  /\ UNCHANGED <<indexMode, local, inflight>>
  /\ UNCHANGED docVars

\* deleteOne up to its first await: getById, and the return when nothing is
\* stored
DeleteOneRead(p, itemId) ==
  /\ pc[p] = "idle"
  /\ call' = [call EXCEPT ![p] = Call("deleteOne", itemId, Undefined)]
  /\ local' = [local EXCEPT ![p] = GetByIdResult(store, itemId)]
  /\ IF IsAbsent(GetByIdResult(store, itemId))
       THEN /\ pc' = [pc EXCEPT ![p] = "done"]
            /\ ret' = [ret EXCEPT ![p] = Void]
            /\ last' = Mark(p, "deleteOne")
       ELSE /\ pc' = [pc EXCEPT ![p] = "deleteOne_commit"]
            /\ ret' = ret
            /\ last' = Mark(p, "deleteOne_read")
  /\ UNCHANGED <<store, version, indexMode, lastCommit, inflight, everKeys,
                 lastWrite, onlyCud>>
  /\ UNCHANGED docVars

\* deleteOne from the commit on: the result of commit() is not looked at
DeleteOneCommit(p, ok) ==
  /\ pc[p] = "deleteOne_commit"
  /\ store' = KvCommit(store, DeleteOneTx(local[p]), version, ok)
  /\ pc' = [pc EXCEPT ![p] = "done"]
  /\ ret' = [ret EXCEPT ![p] = DeleteOneOutcome(ok)]
  /\ lastCommit' = [lastCommit EXCEPT ![p] = Verdict(ok)]
  /\ onlyCud' = (onlyCud /\ ok)
  /\ last' = Mark(p, "deleteOne")
  /\ UNCHANGED <<version, indexMode, call, local, inflight, everKeys,
                 lastWrite>>
  /\ UNCHANGED docVars

\* updateOne up to its first await: kv.get of [collection, itemId]
UpdateOneRead(p, itemId, item) ==
  /\ pc[p] = "idle"
  /\ MayWrite
  /\ call' = [call EXCEPT ![p] = Call("updateOne", itemId, item)]
  /\ local' = [local EXCEPT ![p] = KvGet(store, PrimaryKey(itemId))]
  /\ pc' = [pc EXCEPT ![p] = "updateOne_commit"]
  /\ onlyCud' = (onlyCud /\ itemId = item._id
                          /\ PrimaryKey(itemId) \in DOMAIN store)
  /\ last' = Mark(p, "updateOne_read")
  /\ UNCHANGED <<store, version, indexMode, ret, lastCommit, inflight,
                 everKeys, lastWrite>>
  /\ UNCHANGED docVars

\* updateOne from the commit on
UpdateOneCommit(p, ok) ==
  /\ pc[p] = "updateOne_commit"
  /\ store' = KvCommit(store, UpdateOneTx(local[p], call[p].item),
                       version + 1, ok)
  /\ version' = IF ok THEN version + 1 ELSE version
  /\ pc' = [pc EXCEPT ![p] = "done"]
  /\ ret' = [ret EXCEPT ![p] = UpdateOneOutcome(ok, local[p], call[p].item)]
  /\ lastCommit' = [lastCommit EXCEPT ![p] = Verdict(ok)]
  /\ everKeys' = IF ok
       THEN [everKeys EXCEPT ![call[p].item._id] =
               @ \cup Range(GetSecondaryKeys(call[p].item))]
       ELSE everKeys
  /\ lastWrite' = IF ok
       THEN [lastWrite EXCEPT ![call[p].item._id] = version + 1]
       ELSE lastWrite
  /\ onlyCud' = (onlyCud /\ ok)
  /\ last' = Mark(p, "updateOne")
  /\ UNCHANGED <<indexMode, call, local, inflight>>
  /\ UNCHANGED docVars

\* deleteAll up to the first entry of the iterator: the list is read in one
\* batch (the collections of the model are far below the batch size)
DeleteAllList(p) ==
  /\ pc[p] = "idle"
  /\ call' = [call EXCEPT ![p] = Call("deleteAll", "", Undefined)]
  /\ local' = [local EXCEPT ![p] = KvList(store, collectionName)]
  /\ pc' = [pc EXCEPT ![p] = "deleteAll_loop"]
  /\ onlyCud' = FALSE
  /\ last' = Mark(p, "deleteAll_list")
  /\ UNCHANGED <<store, version, indexMode, ret, lastCommit, inflight,
                 everKeys, lastWrite>>
  /\ UNCHANGED docVars

\* one turn of the loop: kv.delete(res.key) is called and its promise dropped,
\* so the delete is on its way to the store and the loop goes on
DeleteAllIssue(p) ==
  /\ pc[p] = "deleteAll_loop"
  /\ Len(local[p]) > 0
  /\ inflight' = inflight \cup {Head(local[p])}
  /\ local' = [local EXCEPT ![p] = Tail(@)]
  /\ last' = Mark(p, "deleteAll_issue")
  /\ UNCHANGED <<store, version, indexMode, pc, call, ret, lastCommit,
                 everKeys, lastWrite, onlyCud>>
  /\ UNCHANGED docVars

\* the iterator is exhausted: the promise of deleteAll resolves
DeleteAllReturn(p) ==
  /\ pc[p] = "deleteAll_loop"
  /\ Len(local[p]) = 0
  /\ pc' = [pc EXCEPT ![p] = "done"]
  /\ ret' = [ret EXCEPT ![p] = Void]
  /\ last' = Mark(p, "deleteAll")
  /\ UNCHANGED <<store, version, indexMode, call, local, lastCommit,
                 inflight, everKeys, lastWrite, onlyCud>>
  /\ UNCHANGED docVars

\* the caller has the outcome of its call and is free to make the next one
KvReturn(p) ==
  /\ pc[p] = "done"
  /\ pc' = [pc EXCEPT ![p] = "idle"]
  /\ call' = [call EXCEPT ![p] = NoCall]
  /\ local' = [local EXCEPT ![p] = Undefined]
  /\ ret' = [ret EXCEPT ![p] = NoResult]
  /\ lastCommit' = [lastCommit EXCEPT ![p] = "none"]
  /\ last' = Mark(p, IF call[p].name = "deleteAll" THEN "deleteAll_return"
                                                       ELSE "return")
  /\ UNCHANGED <<store, version, indexMode, inflight, everKeys, lastWrite,
                 onlyCud>>
  /\ UNCHANGED docVars

\* the store applies a delete that deleteAll sent and did not await
KvApplyDelete(k) ==
  /\ k \in inflight
  /\ store' = KvApply(store, {DeleteOp(k)}, version)
  /\ inflight' = inflight \ {k}
  /\ last' = Mark(0, "store_delete")
  /\ UNCHANGED <<version, indexMode, pc, call, local, ret, lastCommit,
                 everKeys, lastWrite, onlyCud>>
  /\ UNCHANGED docVars

-----------------------------------------------------------------------------
(* The Document Repository: src/mongodb/repository.ts over a collection.   *)

\* An identifier is the store's ObjectId, [oid |-> bytes], or a string,
\* [str |-> characters]: _id: string | ObjectId.
HexDigits ==
  <<"0", "1", "2", "3", "4", "5", "6", "7", "8", "9", "a", "b", "c", "d", "e", "f">>
UpperHexDigits ==
  <<"0", "1", "2", "3", "4", "5", "6", "7", "8", "9", "A", "B", "C", "D", "E", "F">>

IsHexChar(c) == \E i \in 1..16 : HexDigits[i] = c \/ UpperHexDigits[i] = c
HexValue(c) ==
  (CHOOSE i \in 1..16 : HexDigits[i] = c \/ UpperHexDigits[i] = c) - 1

\* a toString that drops the leading zero of a byte, as Number.toString(16) does
ToHexStringUnpadded(bytes) ==
  IF bytes = <<>> THEN <<>>
  ELSE (IF Head(bytes) < 16 THEN <<HexDigits[Head(bytes) + 1]>>
        ELSE <<HexDigits[(Head(bytes) \div 16) + 1],
               HexDigits[(Head(bytes) % 16) + 1]>>)
       \o [i \in 1..2 * (Len(bytes) - 1) |->
             IF i % 2 = 1 THEN HexDigits[(bytes[1 + (i + 1) \div 2] \div 16) + 1]
                          ELSE HexDigits[(bytes[1 + (i + 1) \div 2] % 16) + 1]]

\* ObjectId.toString(): two lower-case hex digits a byte
ToHexString(bytes) ==
  [i \in 1..2 * Len(bytes) |->
     IF i % 2 = 1 THEN HexDigits[(bytes[(i + 1) \div 2] \div 16) + 1]
                  ELSE HexDigits[(bytes[(i + 1) \div 2] % 16) + 1]]

\* the strings new ObjectId(string) takes: 2 * IdBytes hex digits of either case
IsValidHexString(chars) ==
  Len(chars) = 2 * IdBytes /\ \A i \in 1..Len(chars) : IsHexChar(chars[i])

FromHexString(chars) ==
  [i \in 1..(Len(chars) \div 2) |->
     16 * HexValue(chars[2 * i - 1]) + HexValue(chars[2 * i])]

NativeId(bytes) == [oid |-> bytes]
StringId(chars) == [str |-> chars]
IsNativeId(id) == "oid" \in DOMAIN id
IsStringId(id) == "str" \in DOMAIN id

RECURSIVE Power(_, _)
Power(b, n) == IF n = 0 THEN 1 ELSE b * Power(b, n - 1)

\* a generator that hands out one identifier over and over
NewObjectIdFixed(counter) == NativeId([i \in 1..IdBytes |-> 0])

\* new ObjectId(): the bytes of the process's counter, which starts at a
\* random value and goes up by one with every identifier
NewObjectId(counter) ==
  NativeId([i \in 1..IdBytes |->
              (counter \div Power(256, IdBytes - i)) % 256])

\* a constructor that takes any string, giving the identifier of no document
ObjectIdCtorLenient(id) ==
  IF IsNativeId(id) THEN [ok |-> TRUE, id |-> id]
  ELSE IF IsValidHexString(id.str)
         THEN [ok |-> TRUE, id |-> NativeId(FromHexString(id.str))]
         ELSE [ok |-> TRUE, id |-> NativeId(<<>>)]

\* new ObjectId(id): a copy of an ObjectId, the bytes of a valid hex string,
\* and a throw for any other string
ObjectIdCtor(id) ==
  IF IsNativeId(id) THEN [ok |-> TRUE, id |-> id]
  ELSE IF IsValidHexString(id.str)
         THEN [ok |-> TRUE, id |-> NativeId(FromHexString(id.str))]
         ELSE [ok |-> FALSE, id |-> Null]

IdTypeError == Thrown("input must be a 24 character hex string")

\* where the counter of new ObjectId() starts: 09, 0a, ... in hex
OidSeeds == {9}
Names == {"x", "y"}
Tags == {"p", "q"}
DocFields == {"_id", "name", "tag"}

\* {...obj, _id: obj._id.toString()}
Normalize(obj) == Spread(obj, [_id |-> StringId(ToHexString(obj._id.oid))])

\* a filter of field values: the document has every field of it, with its value
Matches(doc, filter) ==
  \A f \in DOMAIN filter : f \in DOMAIN doc /\ doc[f] = filter[f]

\* collection.find(filter).toArray()
Find(coll, filter) ==
  LET Hit(d) == Matches(d, filter) IN SelectSeq(coll, Hit)

\* the position of the first match, 0 when there is none
FirstMatch(coll, filter) ==
  IF \E i \in 1..Len(coll) : Matches(coll[i], filter)
    THEN CHOOSE i \in 1..Len(coll) :
           /\ Matches(coll[i], filter)
           /\ \A j \in 1..(i - 1) : ~Matches(coll[j], filter)
    ELSE 0

\* collection.findOne(filter)
FindOne(coll, filter) ==
  IF FirstMatch(coll, filter) = 0 THEN Undefined
  ELSE coll[FirstMatch(coll, filter)]

RemoveAt(coll, i) ==
  [j \in 1..(Len(coll) - 1) |-> IF j < i THEN coll[j] ELSE coll[j + 1]]

\* an update that replaces the document by the fields given
ReplaceFields(doc, obj) == Spread([_id |-> doc._id], obj)

\* {$set: {...obj}} on a document
SetFields(doc, obj) == Spread(doc, obj)

\* MongodbRepository.getAll
DocGetAllResult(coll, filter) ==
  [i \in 1..Len(Find(coll, filter)) |-> Normalize(Find(coll, filter)[i])]

\* MongodbRepository.getOne and getById: what they make of findOne's result
DocFound(obj) == IF obj = Undefined THEN Undefined ELSE Normalize(obj)

\* the result of collection.updateOne
UpdateResult(matched, modified) ==
  [matchedCount |-> matched, modifiedCount |-> modified, upsertedCount |-> 0]

ImmutableIdError ==
  Thrown("Performing an update on the path '_id' would modify the immutable field '_id'")
EmptySetError == Thrown("'$set' is empty")

\* an updateOne with upsert: a document is made when none has the identifier
StoreUpdateOneUpsert(coll, id, obj, rejectEmpty) ==
  LET i == FirstMatch(coll, [_id |-> id])
  IN  IF rejectEmpty /\ DOMAIN obj = {}
        THEN [coll |-> coll, result |-> EmptySetError]
      ELSE IF i = 0
        THEN [coll |-> Append(coll, Spread(obj, [_id |-> id])),
              result |-> Returned([matchedCount |-> 0, modifiedCount |-> 0,
                                   upsertedCount |-> 1])]
      ELSE [coll |-> [coll EXCEPT ![i] = SetFields(coll[i], obj)],
            result |-> Returned(UpdateResult(1, 1))]

\* collection.updateOne({_id}, {$set: obj}): the first document with the
\* identifier has the fields of obj set.  The server rejects a $set that
\* would change _id, and servers before 5.0 (rejectEmpty) an empty $set.
StoreUpdateOne(coll, id, obj, rejectEmpty) ==
  LET i == FirstMatch(coll, [_id |-> id])
  IN  IF rejectEmpty /\ DOMAIN obj = {}
        THEN [coll |-> coll, result |-> EmptySetError]
      ELSE IF i = 0
        THEN [coll |-> coll, result |-> Returned(UpdateResult(0, 0))]
      ELSE IF "_id" \in DOMAIN obj /\ obj._id # coll[i]._id
        THEN [coll |-> coll, result |-> ImmutableIdError]
      ELSE [coll |-> [coll EXCEPT ![i] = SetFields(coll[i], obj)],
            result |-> Returned(UpdateResult(1,
                         IF SetFields(coll[i], obj) = coll[i] THEN 0 ELSE 1))]

\* a deleteMany that stops at the first document
StoreDeleteManyFirst(coll) ==
  IF coll = <<>> THEN [coll |-> coll, count |-> 0]
  ELSE [coll |-> Tail(coll), count |-> 1]

\* collection.deleteMany({}): every document goes, their number is returned
StoreDeleteMany(coll) == [coll |-> <<>>, count |-> Len(coll)]

\* collection.deleteOne({_id}): the first document with the identifier goes
StoreDeleteOne(coll, id) ==
  LET i == FirstMatch(coll, [_id |-> id])
  IN  IF i = 0 THEN [coll |-> coll, count |-> 0]
      ELSE [coll |-> RemoveAt(coll, i), count |-> 1]

\* the identifiers a caller may pass: those of the documents, as the string
\* the repository hands out, in upper case, and as the ObjectId create hands
\* back; the string of an identifier no document has; and strings that are no
\* hex encoding (empty, hex but for the last character, too long)
Upper(chars) ==
  [i \in 1..Len(chars) |->
     IF \E k \in 1..16 : HexDigits[k] = chars[i]
       THEN UpperHexDigits[CHOOSE k \in 1..16 : HexDigits[k] = chars[i]]
       ELSE chars[i]]

InvalidIdStrings ==
  { StringId(<<>>),
    StringId([i \in 1..2 * IdBytes |-> IF i = 2 * IdBytes THEN "g" ELSE "0"]),
    StringId([i \in 1..2 * IdBytes + 1 |-> "0"]) }

IdInputs ==
  {docs[i]._id : i \in 1..Len(docs)}
  \cup {StringId(ToHexString(docs[i]._id.oid)) : i \in 1..Len(docs)}
  \cup {StringId(Upper(ToHexString(docs[i]._id.oid))) : i \in {1} \cap DOMAIN docs}
  \cup {StringId(ToHexString(NewObjectId(oidCounter).oid))}
  \cup InvalidIdStrings

\* the entities a caller may create: new ones, and ones read from the
\* repository before, which carry the string of a document's identifier
EntityInputs ==
  [_id : {StringId(<<>>)}
           \cup {StringId(ToHexString(docs[i]._id.oid)) : i \in {1} \cap DOMAIN docs},
   name : Names, tag : Tags]

Restrict(r, S) == [f \in S |-> r[f]]

\* Partial<T>: any subset of the fields; an _id, when given, is the
\* identifier the call is made with, as it is passed
PartialInputs(id) ==
  {Restrict(r, S) : r \in [_id : {id}, name : Names, tag : {"q"}],
                    S \in SUBSET DocFields}

FilterInputs == {Restrict([name |-> n], S) : n \in Names, S \in SUBSET {"name"}}

DocCall(name, id, item) == [name |-> name, itemId |-> id, item |-> item]
NoId == StringId(<<>>)

\* mcall and mret are the call in hand and its outcome.  History kept for the
\* claims: queried, whether that call reached the store; mprev, what the call
\* before it returned if it was a create; mprevDeleteAll, whether the call
\* before it was a deleteAll.
PrevOf(c, r) == IF c.name = "create" THEN r ELSE NoResult
Idle == mcall.name = "none"

DocInit ==
  /\ docs = <<>>
  /\ oidCounter \in OidSeeds
  /\ created = 0
  /\ queried = FALSE
  /\ mcall = DocCall("none", NoId, Undefined)
  /\ mret = NoResult
  /\ mprev = NoResult
  /\ mprevDeleteAll = FALSE

DocGetAll(filter) ==
  /\ Idle
  /\ mcall' = DocCall("getAll", NoId, filter)
  /\ mret' = Returned(DocGetAllResult(docs, filter))
  /\ queried' = TRUE
  /\ UNCHANGED <<mprev, mprevDeleteAll>>
  /\ UNCHANGED <<docs, oidCounter, created>>
  /\ UNCHANGED kvVars

DocGetOne(filter) ==
  /\ Idle
  /\ mcall' = DocCall("getOne", NoId, filter)
  /\ mret' = Returned(DocFound(FindOne(docs, filter)))
  /\ queried' = TRUE
  /\ UNCHANGED <<mprev, mprevDeleteAll>>
  /\ UNCHANGED <<docs, oidCounter, created>>
  /\ UNCHANGED kvVars

DocGetById(id) ==
  /\ Idle
  /\ mcall' = DocCall("getById", id, Undefined)
  /\ IF ObjectIdCtor(id).ok
       THEN /\ mret' = Returned(DocFound(FindOne(docs,
                                   [_id |-> ObjectIdCtor(id).id])))
            /\ queried' = TRUE
       ELSE /\ mret' = IdTypeError
            /\ queried' = FALSE
  /\ UNCHANGED <<mprev, mprevDeleteAll>>
  /\ UNCHANGED <<docs, oidCounter, created>>
  /\ UNCHANGED kvVars

\* obj._id = new ObjectId(); insertOne(obj); return obj
DocCreate(obj) ==
  /\ Idle
  /\ created < MaxDocs
  /\ mcall' = DocCall("create", NoId, obj)
  /\ docs' = Append(docs, Spread(obj, [_id |-> NewObjectId(oidCounter)]))
  /\ mret' = Returned(Spread(obj, [_id |-> NewObjectId(oidCounter)]))
  /\ oidCounter' = oidCounter + 1
  /\ created' = created + 1
  /\ queried' = TRUE
  /\ UNCHANGED <<mprev, mprevDeleteAll>>
  /\ UNCHANGED kvVars

DocUpdateOne(objId, obj, rejectEmpty) ==
  /\ Idle
  /\ rejectEmpty => DOMAIN obj = {}
  /\ mcall' = DocCall("updateOne", objId, obj)
  /\ IF ObjectIdCtor(objId).ok
       THEN /\ docs' = StoreUpdateOne(docs, ObjectIdCtor(objId).id, obj,
                                      rejectEmpty).coll
            /\ mret' = StoreUpdateOne(docs, ObjectIdCtor(objId).id, obj,
                                      rejectEmpty).result
            /\ queried' = TRUE
       ELSE /\ docs' = docs
            /\ mret' = IdTypeError
            /\ queried' = FALSE
  /\ UNCHANGED <<mprev, mprevDeleteAll>>
  /\ UNCHANGED <<oidCounter, created>>
  /\ UNCHANGED kvVars

DocDeleteOne(objId) ==
  /\ Idle
  /\ mcall' = DocCall("deleteOne", objId, Undefined)
  /\ IF ObjectIdCtor(objId).ok
       THEN /\ docs' = StoreDeleteOne(docs, ObjectIdCtor(objId).id).coll
            /\ mret' = Returned(
                         StoreDeleteOne(docs, ObjectIdCtor(objId).id).count)
            /\ queried' = TRUE
       ELSE /\ docs' = docs
            /\ mret' = IdTypeError
            /\ queried' = FALSE
  /\ UNCHANGED <<mprev, mprevDeleteAll>>
  /\ UNCHANGED <<oidCounter, created>>
  /\ UNCHANGED kvVars

\* deleteMany({})
DocDeleteAll ==
  /\ Idle
  /\ mcall' = DocCall("deleteAll", NoId, Undefined)
  /\ docs' = StoreDeleteMany(docs).coll
  /\ mret' = Returned(StoreDeleteMany(docs).count)
  /\ queried' = TRUE
  /\ UNCHANGED <<mprev, mprevDeleteAll>>
  /\ UNCHANGED <<oidCounter, created>>
  /\ UNCHANGED kvVars

\* the caller has the outcome of its call and is free to make the next one
DocReturn ==
  /\ ~Idle
  /\ mprev' = PrevOf(mcall, mret)
  /\ mprevDeleteAll' = (mcall.name = "deleteAll")
  /\ mcall' = DocCall("none", NoId, Undefined)
  /\ mret' = NoResult
  /\ queried' = FALSE
  /\ UNCHANGED <<docs, oidCounter, created>>
  /\ UNCHANGED kvVars

Init == KvInit /\ DocInit

\* one caller at a time
Next ==
  \/ \E p \in {1} : GetAll(p)
  \/ \E p \in {1}, id \in Ids \cup {""} : GetById(p, id)
  \/ \E p \in {1}, item \in Entities, ok \in BOOLEAN : Create(p, item, ok)
  \/ \E p \in {1}, id \in Ids \cup {""} : DeleteOneRead(p, id)
  \/ \E p \in {1}, ok \in BOOLEAN : DeleteOneCommit(p, ok)
  \/ \E p \in {1}, id \in Ids, item \in Entities : UpdateOneRead(p, id, item)
  \/ \E p \in {1}, ok \in BOOLEAN : UpdateOneCommit(p, ok)
  \/ \E p \in {1} : DeleteAllList(p)
  \/ \E p \in {1} : DeleteAllIssue(p)
  \/ \E p \in {1} : DeleteAllReturn(p)
  \/ \E p \in {1} : KvReturn(p)
  \/ \E k \in inflight : KvApplyDelete(k)

Spec == Init /\ [][Next]_vars

\* two callers that create, update and delete, their reads and commits
\* interleaved
ConcNext ==
  \/ \E p \in Procs, item \in Entities, ok \in BOOLEAN : Create(p, item, ok)
  \/ \E p \in Procs, id \in Ids : DeleteOneRead(p, id)
  \/ \E p \in Procs, ok \in BOOLEAN : DeleteOneCommit(p, ok)
  \/ \E p \in Procs, id \in Ids, item \in Entities : UpdateOneRead(p, id, item)
  \/ \E p \in Procs, ok \in BOOLEAN : UpdateOneCommit(p, ok)
  \/ \E p \in Procs : KvReturn(p)

ConcSpec == Init /\ [][ConcNext]_vars

\* the calls of the Document Repository, one at a time
DocNext ==
  \/ \E filter \in FilterInputs : DocGetAll(filter)
  \/ \E filter \in FilterInputs : DocGetOne(filter)
  \/ \E id \in IdInputs : DocGetById(id)
  \/ \E obj \in EntityInputs : DocCreate(obj)
  \/ \E id \in IdInputs, rejectEmpty \in BOOLEAN :
       \E obj \in PartialInputs(id) : DocUpdateOne(id, obj, rejectEmpty)
  \/ \E id \in IdInputs : DocDeleteOne(id)
  \/ DocDeleteAll
  \/ DocReturn

\* (the key-value store plays no part: its hook is the base class's)
DocSpecInit ==
  /\ Init
  /\ indexMode = "none"

DocSpec == DocSpecInit /\ [][DocNext]_vars

-----------------------------------------------------------------------------
(* The claims about the Indexed-KV Repository.                             *)

IsPrimaryKey(k) == \E id \in Ids : k = PrimaryKey(id)
StoredIds == {id \in Ids : PrimaryKey(id) \in DOMAIN store}
StoredSecondaryKeys == {k \in DOMAIN store : ~IsPrimaryKey(k)}
CurrentValue(id) == store[PrimaryKey(id)].value

\* every secondary key of a stored entity's current value is present and
\* holds the value of the primary key
CurrentKeysMirror ==
  \A id \in StoredIds :
    \A k \in Range(GetSecondaryKeys(CurrentValue(id))) :
      k \in DOMAIN store /\ store[k].value = CurrentValue(id)

\* every secondary key in the store is a key of the current value of a
\* stored entity
NoStaleKeys ==
  \A k \in StoredSecondaryKeys :
    \E id \in StoredIds : k \in Range(GetSecondaryKeys(CurrentValue(id)))

\* C1: after any sequence of successful create, updateOne and deleteOne
\* calls, every secondary key of each stored entity's current value is
\* present with the value of the primary key, and no secondary key of an
\* earlier version of an entity is left in the store.  Stated on the plainest
\* of those sequences (onlyCud): creates of ids not yet stored, updates of
\* stored entities under their own id, deletes.
C1_IndexConsistency ==
  (onlyCud /\ last.act \in {"create", "updateOne", "deleteOne"})
    => (CurrentKeysMirror /\ NoStaleKeys)

\* C2: once deleteOne(id) has completed on an entity that existed, getById(id)
\* is absent and no secondary key ever written for that id by a create or an
\* updateOne is left in the store.  Stated on the same sequences as C1, for a
\* delete whose commit the store applied.
C2_DeleteCompleteness ==
  \A p \in Procs :
    (onlyCud /\ last = Mark(p, "deleteOne") /\ lastCommit[p] = "ok")
      => /\ IsAbsent(GetByIdResult(store, call[p].itemId))
         /\ \A k \in everKeys[call[p].itemId] : k \notin DOMAIN store

\* C3: right after a successful create(e), getById(e._id) and the value at
\* every key of getSecondaryKeys(e) are all e, and create has returned e.
C3_CreateIndexConsistent ==
  \A p \in Procs :
    (last = Mark(p, "create") /\ lastCommit[p] = "ok")
      => /\ GetByIdResult(store, call[p].item._id) = call[p].item
         /\ \A k \in Range(GetSecondaryKeys(call[p].item)) :
              k \in DOMAIN store /\ store[k].value = call[p].item
         /\ ret[p] = Returned(call[p].item)

\* a create of an indexed entity has just committed
C3_Witness ==
  \E p \in Procs :
    /\ last = Mark(p, "create")
    /\ lastCommit[p] = "ok"
    /\ Range(GetSecondaryKeys(call[p].item)) # {}

\* C4: a create or updateOne whose commit the store reports as not applied
\* raises an error, and no step of that call changes the store: neither the
\* primary key nor a secondary key is written.
C4_CommitFailureNoWrite ==
  [][\A p \in Procs :
       /\ (last' \in {Mark(p, "create"), Mark(p, "updateOne")}
           /\ lastCommit'[p] = "failed")
            => (ret'[p].kind = "error" /\ store' = store)
       /\ (last' = Mark(p, "updateOne_read")) => store' = store]_vars

\* a create and an updateOne of an indexed entity whose commit failed
C4_Witness ==
  \E p \in Procs :
    /\ last.act \in {"create", "updateOne"}
    /\ last.proc = p
    /\ lastCommit[p] = "failed"
    /\ ret[p].kind = "error"
    /\ Range(GetSecondaryKeys(call[p].item)) # {}

\* C5: with updateOne and deleteOne calls on one id interleaved in any
\* order, no reachable state has a secondary key whose primary record is
\* absent or whose value differs from the primary record's.  Stated for the
\* secondary keys that the latest commit to their entity wrote, so that a key
\* left behind by an earlier version of the entity (C1) does not count, and
\* on the sequences of C1 (onlyCud), so that the writers are updateOne and
\* deleteOne calls on a stored entity.
C5_ConcurrentIndexConsistent ==
  \A k \in StoredSecondaryKeys :
    (onlyCud /\ store[k].versionstamp = lastWrite[store[k].value._id])
      => /\ PrimaryKey(store[k].value._id) \in DOMAIN store
         /\ store[PrimaryKey(store[k].value._id)].value = store[k].value

\* C6: when the promise of deleteAll resolves, nothing is left under the
\* collection prefix and a getAll issued then returns the empty sequence; a
\* second deleteAll in succession finds nothing to delete.
C6_DeleteAllCompletes ==
  [][\A p \in Procs :
       /\ (last' = Mark(p, "deleteAll"))
            => /\ KvList(store', collectionName) = <<>>
               /\ GetAllResult(store') = <<>>
       /\ (last = Mark(p, "deleteAll_return")
           /\ last' = Mark(p, "deleteAll_list"))
            => local'[p] = <<>>]_vars

-----------------------------------------------------------------------------
(* The claims about the Document Repository.                               *)

\* the last call was getById with the identifier the create before it handed
\* back, passed as it is or as its string
GetByIdOfCreated ==
  /\ mcall.name = "getById"
  /\ mprev.kind = "value"
  /\ mcall.itemId \in {mprev.val._id,
                       StringId(ToHexString(mprev.val._id.oid))}

\* C7: create(e) followed by getById of the identifier it returned yields e
\* with its identifier as a string, and that string parsed back is the
\* identifier create generated.
C7_IdRoundTrip ==
  GetByIdOfCreated
    => /\ mret.kind = "value"
       /\ mret.val # Undefined
       /\ DOMAIN mret.val = DOMAIN mprev.val
       /\ \A f \in (DOMAIN mprev.val) \ {"_id"} : mret.val[f] = mprev.val[f]
       /\ IsStringId(mret.val._id)
       /\ IsValidHexString(mret.val._id.str)
       /\ NativeId(FromHexString(mret.val._id.str)) = mprev.val._id

\* a getById of a created entity's identifier, given as a string, has returned
C7_Witness ==
  /\ GetByIdOfCreated
  /\ IsStringId(mcall.itemId)
  /\ mret.kind = "value"
  /\ Len(docs) = 2

\* C8: every entity that getAll, getOne, getById and create hand back has its
\* identifier as a string, never as the store's ObjectId.
C8_IdsNormalized ==
  mret.kind = "value"
    => CASE mcall.name = "getAll" ->
              \A i \in DOMAIN mret.val : IsStringId(mret.val[i]._id)
         [] mcall.name \in {"getOne", "getById", "create"} ->
              mret.val # Undefined => IsStringId(mret.val._id)
         [] OTHER -> TRUE

\* the position in coll of the document the call c is made on, 0 if none
Target(coll, c) ==
  IF ObjectIdCtor(c.itemId).ok
    THEN FirstMatch(coll, [_id |-> ObjectIdCtor(c.itemId).id])
    ELSE 0

C10_InvalidIdFails ==
  [][(mcall'.name \in {"getById", "updateOne", "deleteOne"}
      /\ mcall'.itemId \in InvalidIdStrings)
       => (mret'.kind = "error" /\ ~queried' /\ docs' = docs)]_vars

\* an updateOne with such a string and a field to set has failed on a
\* collection that holds a document
C10_Witness ==
  /\ mcall.name = "updateOne"
  /\ mcall.itemId \in InvalidIdStrings
  /\ DOMAIN mcall.item # {}
  /\ mret.kind = "error"
  /\ Len(docs) > 0

\* C11: deleteAll on a collection of n documents returns n and leaves the
\* collection empty; a deleteAll that follows a deleteAll returns 0 and the
\* collection is still empty.
C11_DeleteAllCount ==
  [][(mcall'.name = "deleteAll")
       => /\ mret' = Returned(Len(docs))
          /\ docs' = <<>>
          /\ mprevDeleteAll => (mret' = Returned(0) /\ docs = <<>>)]_vars

\* a deleteAll of two documents has returned, and then a second deleteAll
C11_Witness ==
  /\ mcall.name = "deleteAll"
  /\ mprevDeleteAll
  /\ mret = Returned(0)
  /\ created = 2

-----------------------------------------------------------------------------
(* Further claims about the Indexed-KV Repository.                         *)

\* C12: deleteOne never raises, whatever its commit came to; when the commit
\* does not apply, deleteOne returns as it does otherwise and the store is as
\* it was, the primary key and the secondary keys of the entity still there.
C12_SilentDeleteFailure ==
  [][\A p \in Procs :
       (last' = Mark(p, "deleteOne"))
         => /\ ret'[p] = Void
            /\ (lastCommit'[p] = "failed")
                 => /\ store' = store
                    /\ \A m \in DeleteOneTx(local[p]) :
                         m.key \in DOMAIN store => m.key \in DOMAIN store']_vars

\* a deleteOne of a stored, indexed entity whose commit did not apply has
\* returned
C12_Witness ==
  \E p \in Procs :
    /\ last = Mark(p, "deleteOne")
    /\ lastCommit[p] = "failed"
    /\ ret[p] = Void
    /\ PrimaryKey(call[p].itemId) \in DOMAIN store
    /\ Range(GetSecondaryKeys(local[p])) # {}
    /\ Range(GetSecondaryKeys(local[p])) \subseteq DOMAIN store

\* the entry read overlaid field by field with the item, the item winning
Overlaid(wrapper, item) ==
  [f \in (DOMAIN wrapper) \cup (DOMAIN item) |->
     IF f \in DOMAIN item THEN item[f] ELSE wrapper[f]]

\* C13: an updateOne(id, newEntity) with id = newEntity._id whose commit
\* applies sets the primary key [collection, id] and every key of
\* getSecondaryKeys(newEntity) to one value, the entry read overlaid with
\* newEntity, in one commit: the keys carry one versionstamp, no other key
\* changes, and the read before the commit writes nothing.
C13_UpdateResetsIndex ==
  [][\A p \in Procs :
       /\ (last' = Mark(p, "updateOne") /\ lastCommit'[p] = "ok"
           /\ call[p].itemId = call[p].item._id)
            => LET keys == {PrimaryKey(call[p].itemId)}
                             \cup Range(GetSecondaryKeys(call[p].item))
               IN  /\ \A k \in keys :
                        /\ k \in DOMAIN store'
                        /\ store'[k].value = Overlaid(local[p], call[p].item)
                        /\ store'[k].versionstamp = version'
                   /\ version' = version + 1
                   /\ \A k \in ((DOMAIN store) \cup (DOMAIN store')) \ keys :
                        /\ k \in DOMAIN store
                        /\ k \in DOMAIN store'
                        /\ store'[k] = store[k]
                   /\ ret'[p] = Returned(Overlaid(local[p], call[p].item))
       /\ (last' = Mark(p, "updateOne_read")) => store' = store]_vars

\* an updateOne of a stored, indexed entity under its own id has committed
C13_Witness ==
  \E p \in Procs :
    /\ last = Mark(p, "updateOne")
    /\ lastCommit[p] = "ok"
    /\ call[p].itemId = call[p].item._id
    /\ local[p].value # Null
    /\ local[p].value.email # call[p].item.email
    /\ Range(GetSecondaryKeys(call[p].item)) # {}

\* the steps of a deleteAll, those of the store on its deletes included
DeleteAllSteps == {"deleteAll_list", "deleteAll_issue", "deleteAll",
                   "store_delete"}

\* C14: no step of a deleteAll removes a secondary key: every secondary key,
\* those of the form [collection, field, value] included, outlives it.
C14_DeleteAllKeepsSecondaryKeys ==
  [][(last'.act \in DeleteAllSteps)
       => \A k \in StoredSecondaryKeys : k \in DOMAIN store']_vars

\* C14 as the code has it: deleteAll lists every key under the collection
\* prefix, primary or secondary, sends a delete for each of them and for no
\* other key, and has sent them all when it returns; the deletes the store
\* then applies remove keys under the prefix only, so a secondary key outside
\* the prefix stays as it was.
C14_DeleteAllByPrefix ==
  [][\A p \in Procs :
       /\ (last' = Mark(p, "deleteAll_list"))
            => Range(local'[p]) = {k \in DOMAIN store : k[1] = collectionName}
       /\ (last' = Mark(p, "deleteAll_issue"))
            => /\ inflight' \ inflight \subseteq Range(local[p])
               /\ Range(local'[p]) \subseteq Range(local[p])
               /\ Range(local[p]) \subseteq Range(local'[p]) \cup inflight'
               /\ store' = store
       /\ (last' = Mark(p, "deleteAll"))
            => (local'[p] = <<>> /\ store' = store)
       /\ (last'.act = "store_delete")
            => \A k \in DOMAIN store :
                 \/ k[1] = collectionName
                 \/ (k \in DOMAIN store' /\ store'[k] = store[k])]_vars

\* after one create of an indexed entity under the collection prefix, the
\* store has applied a delete of deleteAll to the secondary key, the primary
\* key not yet deleted
C14_Witness ==
  /\ last = Mark(0, "store_delete")
  /\ indexMode = "prefixed"
  /\ version = 1
  /\ StoredIds # {}
  /\ StoredSecondaryKeys = {}

\* the keys of the store whose first segment is the collection name
PrefixKeys == {k \in DOMAIN store : k[1] = collectionName}

\* how many elements of the sequence res are the value v
Occurrences(res, v) == Cardinality({i \in DOMAIN res : res[i] = v})

\* C15: getAll returns one element for every entry of the store whose key
\* starts with the collection name, that entry's value, and nothing else:
\* each value comes as many times as there are such keys holding it, so an
\* entity comes once for its primary key and once more for each of its
\* secondary keys stored under the prefix, and once when it has none there.
C15_GetAllByPrefix ==
  \A p \in Procs :
    (last = Mark(p, "getAll"))
      => /\ ret[p].kind = "value"
         /\ Len(ret[p].val) = Cardinality(PrefixKeys)
         /\ \A v \in {store[k].value : k \in PrefixKeys} \cup Range(ret[p].val) :
              Occurrences(ret[p].val, v)
                = Cardinality({k \in PrefixKeys : store[k].value = v})
         /\ \A id \in StoredIds :
              Occurrences(ret[p].val, CurrentValue(id))
                = 1 + Cardinality(
                        {k \in Range(GetSecondaryKeys(CurrentValue(id))) :
                           /\ k \in PrefixKeys
                           /\ store[k].value = CurrentValue(id)})

\* a getAll has returned an entity twice, for its primary key and for its
\* secondary key under the prefix
C15_Witness ==
  \E p \in Procs, id \in StoredIds :
    /\ last = Mark(p, "getAll")
    /\ Occurrences(ret[p].val, CurrentValue(id)) = 2
    /\ Len(ret[p].val) = 2

\* C18: an updateOne(id, item) that finds no entry at [collection, id] goes
\* on as if it had found one: it raises an error only when its commit does
\* not apply, and a commit that applies makes the primary key
\* [collection, item._id] and the secondary keys of item, so that
\* getById(item._id) then returns a value.
C18_UpdateOneUpserts ==
  [][\A p \in Procs :
       (last' = Mark(p, "updateOne") /\ local[p].value = Null)
         => /\ (ret'[p].kind = "error") <=> (lastCommit'[p] = "failed")
            /\ (lastCommit'[p] = "ok")
                 => /\ ret'[p].kind = "value"
                    /\ PrimaryKey(call[p].item._id) \in DOMAIN store'
                    /\ Range(GetSecondaryKeys(call[p].item))
                         \subseteq DOMAIN store'
                    /\ ~IsAbsent(GetByIdResult(store', call[p].item._id))]_vars

\* an updateOne of an indexed entity whose id was not stored has committed
C18_Witness ==
  \E p \in Procs :
    /\ last = Mark(p, "updateOne")
    /\ lastCommit[p] = "ok"
    /\ local[p].value = Null
    /\ call[p].itemId = call[p].item._id
    /\ Range(GetSecondaryKeys(call[p].item)) # {}
    /\ StoredIds = {call[p].itemId}

\* an updateOne(itemId, item) of caller p with itemId other than item._id
\* commits in this step, an entry being stored at [collection, itemId]
CommitsUnderOtherId(p) ==
  /\ last' = Mark(p, "updateOne")
  /\ lastCommit'[p] = "ok"
  /\ call[p].itemId # call[p].item._id
  /\ PrimaryKey(call[p].itemId) \in DOMAIN store

C20_CreateReplaces ==
  [][\A p \in Procs :
       (last' = Mark(p, "create")
        /\ PrimaryKey(call'[p].item._id) \in DOMAIN store)
         => /\ \A m \in CreateTx(call'[p].item) : m.kind = "set"
            /\ (lastCommit'[p] = "ok")
                 => /\ store'[PrimaryKey(call'[p].item._id)].value
                         = call'[p].item
                    /\ ret'[p] = Returned(call'[p].item)
                    /\ \A k \in Range(GetSecondaryKeys(
                                      CurrentValue(call'[p].item._id)))
                                 \ Range(GetSecondaryKeys(call'[p].item)) :
                         k \in DOMAIN store
                           => (k \in DOMAIN store' /\ store'[k] = store[k])]_vars

\* a create has committed on an id that was stored with another indexed
\* value: the primary key holds the new entity, the secondary key of the
\* value replaced is still there
C20_Witness ==
  \E p \in Procs :
    /\ last = Mark(p, "create")
    /\ lastCommit[p] = "ok"
    /\ version = 2
    /\ StoredIds = {call[p].item._id}
    /\ CurrentValue(call[p].item._id) = call[p].item
    /\ Cardinality(everKeys[call[p].item._id]) = 2
    /\ everKeys[call[p].item._id] \subseteq DOMAIN store

-----------------------------------------------------------------------------
(* Further claims about the Document Repository.                           *)

\* the identifier id as a string of hex digits, whichever form it has
IdString(id) == IF IsNativeId(id) THEN ToHexString(id.oid) ELSE id.str

\* C16: create(e) adds one document, e with a new identifier in place of any
\* identifier e carries, and changes no document that was there; the
\* identifiers of the documents are pairwise distinct after it, also when
\* the same entity is created twice.
C16_CreateFreshId ==
  [][(mcall'.name = "create")
       => /\ Len(docs') = Len(docs) + 1
          /\ \A j \in 1..Len(docs) : docs'[j] = docs[j]
          /\ LET new == docs'[Len(docs')]
                 e == mcall'.item
             IN  /\ IsNativeId(new._id)
                 /\ IdString(new._id) # IdString(e._id)
                 /\ DOMAIN new = DOMAIN e
                 /\ \A f \in (DOMAIN e) \ {"_id"} : new[f] = e[f]
                 /\ mret'.kind = "value"
                 /\ mret'.val._id = new._id
          /\ \A i, j \in 1..Len(docs') :
               i # j => IdString(docs'[i]._id) # IdString(docs'[j]._id)]_vars

\* an entity that carries the identifier of the first document, and has its
\* other fields, has been created as a second document
C16_Witness ==
  /\ mcall.name = "create"
  /\ Len(docs) = 2
  /\ IdString(mcall.item._id) = IdString(docs[1]._id)
  /\ \A f \in (DOMAIN docs[1]) \ {"_id"} : docs[2][f] = docs[1][f]

=============================================================================
